---- MODULE Spec2Model ----
(***************************************************************************)
(* Model of src/services/geminiService.ts: editImage (request building,    *)
(* the fetch round trip, response extraction, error normalisation) and     *)
(* generateVideo.                                                          *)
(*                                                                         *)
(* A JavaScript string is a sequence of one-character strings; a character *)
(* outside ASCII is the one-element token "uXXXX" of its code point.       *)
(* A JavaScript value is a record with a tag t and, for strings and        *)
(* arrays, the payload v.                                                  *)
(***************************************************************************)
EXTENDS Integers, Sequences, FiniteSets, TLC

VARIABLES
    pc,            \* where the call that is followed stands
    args,          \* the arguments editImage was called with
    requestBody,   \* the request body built by the call
    fetches,       \* the number of calls of fetch the call has made
    response,      \* what fetch resolved to: ok, status, statusText
    errorData,     \* the parsed body of a non-ok response: its error?.message
    data,          \* the parsed JSON body of a successful response
    result,        \* the GeneratedContent under construction / returned
    error,         \* message of the Error editImage rejected with
    progress,      \* messages handed to onProgress by the latest generateVideo
    videoOutcome,  \* "none" | "resolved" | "rejected" for the latest generateVideo
    videoError     \* message of the Error generateVideo rejected with

vars == <<pc, args, requestBody, fetches, response, errorData, data, result, error,
          progress, videoOutcome, videoError>>

---------------------------------------------------------------------------
(* Bounds and program constants *)

\* A response content string is the concatenation of at most MaxPieces pieces.
MaxPieces == 2

\* {100,} in base64Pattern
MinBase64Len == 100

\* ={0,2} in base64Pattern
MaxPadding == 2

MAX_TOKENS == 4096

---------------------------------------------------------------------------
(* JavaScript values *)

Undefined == [t |-> "undefined", v |-> <<>>]

Null == [t |-> "null", v |-> <<>>]

JStr(s) == [t |-> "string", v |-> s]

JArr(a) == [t |-> "array", v |-> a]

JNum(n) == [t |-> "number", v |-> <<n>>]

\* ToBoolean: undefined, null, "" and 0 are falsy; arrays and objects are truthy.
Truthy(x) ==
    CASE x.t = "undefined" -> FALSE
      [] x.t = "null" -> FALSE
      [] x.t = "string" -> x.v # <<>>
      [] x.t = "number" -> x.v # <<0>>
      [] OTHER -> TRUE

MinOf(S) == CHOOSE m \in S : \A n \in S : m <= n

\* s has p as a substring starting at index i (1-based)
IsPrefixAt(s, p, i) ==
    /\ i >= 1
    /\ i + Len(p) - 1 <= Len(s)
    /\ \A k \in 1..Len(p) : s[i + k - 1] = p[k]

\* String.prototype.startsWith
StartsWith(s, p) == IsPrefixAt(s, p, 1)

\* String.prototype.includes
Includes(s, p) == \E i \in 1..(Len(s) + 1) : IsPrefixAt(s, p, i)

Whitespace == {" ", "\t", "\n", "\r"}

\* String.prototype.trim: s without its leading and trailing whitespace
Trim(s) ==
    LET lo == CHOOSE i \in 1..(Len(s) + 1) :
                  /\ i = Len(s) + 1 \/ s[i] \notin Whitespace
                  /\ \A k \in 1..(i - 1) : s[k] \in Whitespace
        hi == CHOOSE j \in 0..Len(s) :
                  /\ j = 0 \/ s[j] \notin Whitespace
                  /\ \A k \in (j + 1)..Len(s) : s[k] \in Whitespace
    IN  SubSeq(s, lo, hi)

---------------------------------------------------------------------------
(* String literals of the source *)

MODEL_NAME == "google/gemini-2.5-flash-image-preview"

DataScheme == <<"d", "a", "t", "a", ":">>

Base64Marker == <<";", "b", "a", "s", "e", "6", "4", ",">>

PngMime == <<"i", "m", "a", "g", "e", "/", "p", "n", "g">>

MaskTemplateHead ==
    <<"A", "p", "p", "l", "y", " ", "t", "h", "e", " ", "f", "o", "l", "l", "o", "w", "i",
    "n", "g", " ", "i", "n", "s", "t", "r", "u", "c", "t", "i", "o", "n", " ", "o", "n",
    "l", "y", " ", "t", "o", " ", "t", "h", "e", " ", "m", "a", "s", "k", "e", "d", " ",
    "a", "r", "e", "a", " ", "o", "f", " ", "t", "h", "e", " ", "i", "m", "a", "g", "e",
    ":", " ", "\"">>

MaskTemplateTail == <<"\"", ".", " ", "P", "r", "e", "s", "e", "r", "v", "e", " ", "t", "h", "e", " ", "u", "n", "m", "a", "s", "k", "e", "d", " ", "a", "r", "e", "a", ".">>

ImageSuffix == <<" ", "P", "l", "e", "a", "s", "e", " ", "g", "e", "n", "e", "r", "a", "t", "e", " ",
    "a", "n", "d", " ", "r", "e", "t", "u", "r", "n", " ", "a", "n", " ", "i", "m", "a",
    "g", "e", " ", "a", "s", " ", "o", "u", "t", "p", "u", "t", ".">>

DataImageLiteral == <<"d", "a", "t", "a", ":", "i", "m", "a", "g", "e", "/">>

PngDataUriPrefix == <<"d", "a", "t", "a", ":", "i", "m", "a", "g", "e", "/", "p", "n", "g", ";", "b", "a",
    "s", "e", "6", "4", ",">>

FetchWord == <<"f", "e", "t", "c", "h">>

NetworkErrorMessage ==
    <<"N", "e", "t", "w", "o", "r", "k", " ", "e", "r", "r", "o", "r", " ", "o", "c", "c",
    "u", "r", "r", "e", "d", ".", " ", "P", "l", "e", "a", "s", "e", " ", "c", "h", "e",
    "c", "k", " ", "y", "o", "u", "r", " ", "i", "n", "t", "e", "r", "n", "e", "t", " ",
    "c", "o", "n", "n", "e", "c", "t", "i", "o", "n", " ", "a", "n", "d", " ", "t", "r",
    "y", " ", "a", "g", "a", "i", "n", ".">>

NoImageHead == <<"G", "e", "m", "i", "n", "i", " ", "2", ".", "5", " ", "F", "l", "a", "s", "h", " ",
    "I", "m", "a", "g", "e", " ", "P", "r", "e", "v", "i", "e", "w", " ", "u6A21",
    "u578B", "u6CA1", "u6709", "u8FD4", "u56DE", "u56FE", "u50CF", "u3002", "\n", "\n">>

ModelResponseLabel == <<"u6A21", "u578B", "u54CD", "u5E94", "uFF1A">>

NoImageAdvice ==
    <<"u53EF", "u80FD", "u7684", "u539F", "u56E0", "uFF1A", "\n", "u2022", " ", "u63D0",
    "u793A", "u8BCD", "u53EF", "u80FD", "u88AB", "u5B89", "u5168", "u8FC7", "u6EE4",
    "u5668", "u963B", "u6B62", "\n", "u2022", " ", "u8F93", "u5165", "u56FE", "u50CF",
    "u683C", "u5F0F", "u6216", "u5185", "u5BB9", "u4E0D", "u7B26", "u5408", "u8981",
    "u6C42", "\n", "u2022", " ", "A", "P", "I", " ", "u54CD", "u5E94", "u683C", "u5F0F",
    "u53D1", "u751F", "u53D8", "u5316", "\n", "u2022", " ", "u6A21", "u578B", "u6682",
    "u65F6", "u4E0D", "u53EF", "u7528", "\n", "\n", "u5EFA", "u8BAE", "u5C1D", "u8BD5",
    "uFF1A", "\n", "u2022", " ", "u4FEE", "u6539", "u63D0", "u793A", "u8BCD", "uFF0C",
    "u907F", "u514D", "u654F", "u611F", "u5185", "u5BB9", "\n", "u2022", " ", "u4F7F",
    "u7528", "u4E0D", "u540C", "u7684", "u8F93", "u5165", "u56FE", "u50CF", "\n",
    "u2022", " ", "u7A0D", "u540E", "u91CD", "u8BD5">>

MatchNotAFunction == <<"r", "e", "s", "p", "o", "n", "s", "e", "C", "o", "n", "t", "e", "n", "t", ".", "m",
    "a", "t", "c", "h", " ", "i", "s", " ", "n", "o", "t", " ", "a", " ", "f", "u", "n",
    "c", "t", "i", "o", "n">>

FindNotAFunction == <<"m", "e", "s", "s", "a", "g", "e", ".", "a", "t", "t", "a", "c", "h", "m", "e", "n",
    "t", "s", ".", "f", "i", "n", "d", " ", "i", "s", " ", "n", "o", "t", " ", "a", " ",
    "f", "u", "n", "c", "t", "i", "o", "n">>

FailedToFetch == <<"F", "a", "i", "l", "e", "d", " ", "t", "o", " ", "f", "e", "t", "c", "h">>

JsonSyntaxError == <<"U", "n", "e", "x", "p", "e", "c", "t", "e", "d", " ", "e", "n", "d", " ", "o", "f",
    " ", "J", "S", "O", "N", " ", "i", "n", "p", "u", "t">>

HttpLiteral == <<"H", "T", "T", "P", " ">>

ColonSpace == <<":", " ">>

CheckingCapabilities == <<"C", "h", "e", "c", "k", "i", "n", "g", " ", "v", "i", "d", "e", "o", " ", "g", "e",
    "n", "e", "r", "a", "t", "i", "o", "n", " ", "c", "a", "p", "a", "b", "i", "l", "i",
    "t", "i", "e", "s", ".", ".", ".">>

VideoUnsupportedMessage ==
    <<"u89C6", "u9891", "u751F", "u6210", "u529F", "u80FD", "u6682", "u65F6", "u4E0D",
    "u53EF", "u7528", "u3002", "u5F53", "u524D", "u4F7F", "u7528", "u7684", " ", "O",
    "p", "e", "n", "R", "o", "u", "t", "e", "r", " ", "G", "e", "m", "i", "n", "i", " ",
    "2", ".", "5", " ", "F", "l", "a", "s", "h", " ", "I", "m", "a", "g", "e", " ", "P",
    "r", "e", "v", "i", "e", "w", " ", "u6A21", "u578B", "u4EC5", "u652F", "u6301",
    "u56FE", "u50CF", "u5904", "u7406", "u529F", "u80FD", "u3002", "u8BF7", "u9009",
    "u62E9", "u5176", "u4ED6", "u56FE", "u50CF", "u53D8", "u6362", "u6548", "u679C",
    "uFF0C", "u6216", "u8054", "u7CFB", "u5F00", "u53D1", "u8005", "u4E86", "u89E3",
    "u89C6", "u9891", "u751F", "u6210", "u66FF", "u4EE3", "u65B9", "u6848", "u3002">>

---------------------------------------------------------------------------
(* The two regular expressions of the extractor *)

UpperCase ==
    {"A", "B", "C", "D", "E", "F", "G", "H", "I", "J", "K", "L", "M",
     "N", "O", "P", "Q", "R", "S", "T", "U", "V", "W", "X", "Y", "Z"}

LowerCase ==
    {"a", "b", "c", "d", "e", "f", "g", "h", "i", "j", "k", "l", "m",
     "n", "o", "p", "q", "r", "s", "t", "u", "v", "w", "x", "y", "z"}

Digits == {"0", "1", "2", "3", "4", "5", "6", "7", "8", "9"}

\* [A-Za-z0-9+/]
Base64Chars == UpperCase \cup LowerCase \cup Digits \cup {"+", "/"}

\* [A-Za-z0-9+/=]
Base64OrPad == Base64Chars \cup {"="}

\* Index of the last character of the longest run of characters of `set`
\* that starts at index `from`; from - 1 when the run is empty.
RunEnd(s, from, set) ==
    LET stops == {j \in from..Len(s) : s[j] \notin set}
    IN  IF stops = {} THEN Len(s) ELSE MinOf(stops) - 1

\* The match of /data:image\/[^;]+;base64,([A-Za-z0-9+/=]+)/ anchored at index i,
\* <<>> when there is none.  [^;]+ cannot cross a ";", so it ends at the first one.
MatchDataUriAt(s, i) ==
    IF ~IsPrefixAt(s, DataImageLiteral, i) THEN <<>>
    ELSE LET a == i + Len(DataImageLiteral)
             semis == {j \in a..Len(s) : s[j] = ";"}
             semi == IF semis = {} THEN 0 ELSE MinOf(semis)
         IN  IF semi = 0 \/ semi = a \/ ~IsPrefixAt(s, Base64Marker, semi) THEN <<>>
             ELSE LET b == semi + Len(Base64Marker)
                      e == RunEnd(s, b, Base64OrPad)
                  IN  IF e < b THEN <<>> ELSE SubSeq(s, i, e)

\* responseContent.match(/data:image\/[^;]+;base64,([A-Za-z0-9+/=]+)/): element 0
\* of the leftmost match, <<>> for null.
MatchDataUri(s) ==
    LET starts == {i \in 1..Len(s) : MatchDataUriAt(s, i) # <<>>}
    IN  IF starts = {} THEN <<>> ELSE MatchDataUriAt(s, MinOf(starts))

\* /^[A-Za-z0-9+/]{100,}={0,2}$/.test(s)
Base64PatternTest(s) ==
    LET body == RunEnd(s, 1, Base64Chars)
        pads == RunEnd(s, body + 1, {"="})
    IN  /\ body >= MinBase64Len
        /\ pads = Len(s)
        /\ \E p \in 0..MaxPadding : body + p = Len(s)

---------------------------------------------------------------------------
(* Request building: editImage, lines 47-101 *)

\* `data:${mimeType};base64,${base64}`
DataUri(mimeType, base64) == DataScheme \o mimeType \o Base64Marker \o base64

\* { type: "image_url", image_url: { url } }
ImagePart(url) == [type |-> "image_url", image_url |-> [url |-> url]]

\* { type: "text", text }
TextPart(text) == [type |-> "text", text |-> text]

\* Mutant of FullPrompt: the prompt is sent as given, mask or not.
FullPromptVerbatim(prompt, maskBase64) == prompt

\* fullPrompt: the prompt, rewritten when a mask is given
FullPrompt(prompt, maskBase64) ==
    IF Truthy(maskBase64)
    THEN MaskTemplateHead \o prompt \o MaskTemplateTail
    ELSE prompt

\* const enhancedPrompt = fullPrompt + " Please generate and return an image as output."
EnhancedPrompt(prompt, maskBase64) == FullPrompt(prompt, maskBase64) \o ImageSuffix

\* Mutant of MessageContent: the secondary image is pushed before the mask.
MessageContentSecondaryFirst(base64ImageData, mimeType, prompt, maskBase64, secondaryImage) ==
    LET primary == <<ImagePart(JStr(DataUri(mimeType, base64ImageData)))>>
        mask == IF Truthy(maskBase64)
                THEN <<ImagePart(JStr(DataUri(PngMime, maskBase64.v)))>>
                ELSE <<>>
        secondary == IF Truthy(secondaryImage)
                     THEN <<ImagePart(JStr(DataUri(secondaryImage.mimeType,
                                                   secondaryImage.base64)))>>
                     ELSE <<>>
    IN  primary \o secondary \o mask
            \o <<TextPart(JStr(EnhancedPrompt(prompt, maskBase64)))>>

\* messageContent after the pushes of lines 53-86
MessageContent(base64ImageData, mimeType, prompt, maskBase64, secondaryImage) ==
    LET primary == <<ImagePart(JStr(DataUri(mimeType, base64ImageData)))>>
        mask == IF Truthy(maskBase64)
                THEN <<ImagePart(JStr(DataUri(PngMime, maskBase64.v)))>>
                ELSE <<>>
        secondary == IF Truthy(secondaryImage)
                     THEN <<ImagePart(JStr(DataUri(secondaryImage.mimeType,
                                                   secondaryImage.base64)))>>
                     ELSE <<>>
    IN  primary \o mask \o secondary
            \o <<TextPart(JStr(EnhancedPrompt(prompt, maskBase64)))>>

RequestBody(messageContent) ==
    [model |-> MODEL_NAME,
     messages |-> <<[role |-> "user", content |-> messageContent]>>,
     max_tokens |-> MAX_TOKENS,
     temperature |-> "0.7"]

NoRequest == [model |-> MODEL_NAME, messages |-> <<>>,
              max_tokens |-> MAX_TOKENS, temperature |-> "0.7"]

---------------------------------------------------------------------------
(* Response extraction: editImage, lines 125-228 *)

\* GeneratedContent = { imageUrl: null, text: null }, with the message of a
\* TypeError raised on the way in err (<<>> when none was raised).
EmptyResult == [imageUrl |-> Null, text |-> Null, err |-> <<>>]

NoMessage ==
    [present |-> FALSE, content |-> Undefined, images |-> Undefined,
     attachments |-> Undefined, image_url |-> Undefined]

\* data.choices?.[0]?.message
FirstMessage(d) ==
    IF Len(d.choices) = 0 THEN NoMessage ELSE d.choices[1].message

\* data.choices?.[0]?.message?.content
ResponseContent(d) == FirstMessage(d).content

\* Mutant of FromContent: the text is saved whether or not an image was found.
FromContentKeepingText(responseContent) ==
    IF ~Truthy(responseContent) THEN EmptyResult
    ELSE IF responseContent.t # "string"
    THEN [EmptyResult EXCEPT !.err = MatchNotAFunction]
    ELSE LET base64ImageMatch == MatchDataUri(responseContent.v)
             trimmed == Trim(responseContent.v)
             imageUrl ==
                 IF base64ImageMatch = <<>>
                 THEN IF Base64PatternTest(trimmed)
                      THEN JStr(PngDataUriPrefix \o trimmed)
                      ELSE Null
                 ELSE JStr(base64ImageMatch)
         IN  [imageUrl |-> imageUrl, text |-> responseContent, err |-> <<>>]

\* Lines 130-157: Strategy A (data URI), Strategy B (raw base64), saved text.
FromContent(responseContent) ==
    IF ~Truthy(responseContent) THEN EmptyResult
    ELSE IF responseContent.t # "string"
    THEN [EmptyResult EXCEPT !.err = MatchNotAFunction]
    ELSE LET base64ImageMatch == MatchDataUri(responseContent.v)
             trimmed == Trim(responseContent.v)
             imageUrl ==
                 IF base64ImageMatch = <<>>
                 THEN IF Base64PatternTest(trimmed)
                      THEN JStr(PngDataUriPrefix \o trimmed)
                      ELSE Null
                 ELSE JStr(base64ImageMatch)
         IN  [imageUrl |-> imageUrl,
              text |-> IF ~Truthy(imageUrl) THEN responseContent ELSE Null,
              err |-> <<>>]

\* item.type === 'image_url' && item.image_url?.url
IsImageUrlItem(item) == item.type = "image_url" /\ Truthy(item.image_url.url)

\* Lines 165-174: message.images
FromImages(message, r) ==
    IF Truthy(message.images) /\ message.images.t = "array"
    THEN LET arr == message.images.v
             hits == {i \in 1..Len(arr) : IsImageUrlItem(arr[i])}
         IN  IF hits = {} THEN r
             ELSE [r EXCEPT !.imageUrl = arr[MinOf(hits)].image_url.url]
    ELSE r

\* att.type === 'image' || att.content_type?.startsWith('image/')
IsImageAttachment(att) ==
    \/ att.type = "image"
    \/ att.content_type.t = "string" /\ StartsWith(att.content_type.v, <<"i", "m", "a", "g", "e", "/">>)

\* Mutant of FromAttachments: the attachments are read even when an image
\* was already found.
FromAttachmentsOverriding(message, r) ==
    IF Truthy(message.attachments)
    THEN IF message.attachments.t # "array"
         THEN [r EXCEPT !.err = FindNotAFunction]
         ELSE LET arr == message.attachments.v
                  hits == {i \in 1..Len(arr) : IsImageAttachment(arr[i])}
              IN  IF hits # {} /\ Truthy(arr[MinOf(hits)].url)
                  THEN [r EXCEPT !.imageUrl = arr[MinOf(hits)].url]
                  ELSE r
    ELSE r

\* Lines 177-186: message.attachments
FromAttachments(message, r) ==
    IF ~Truthy(r.imageUrl) /\ Truthy(message.attachments)
    THEN IF message.attachments.t # "array"
         THEN [r EXCEPT !.err = FindNotAFunction]
         ELSE LET arr == message.attachments.v
                  hits == {i \in 1..Len(arr) : IsImageAttachment(arr[i])}
              IN  IF hits # {} /\ Truthy(arr[MinOf(hits)].url)
                  THEN [r EXCEPT !.imageUrl = arr[MinOf(hits)].url]
                  ELSE r
    ELSE r

\* Lines 189-192: message.image_url
FromImageUrl(message, r) ==
    IF ~Truthy(r.imageUrl) /\ Truthy(message.image_url)
    THEN [r EXCEPT !.imageUrl = message.image_url]
    ELSE r

\* Lines 195-204: message.content as an array of parts
FromContentArray(message, r) ==
    IF ~Truthy(r.imageUrl) /\ message.content.t = "array"
    THEN LET arr == message.content.v
             hits == {i \in 1..Len(arr) : IsImageUrlItem(arr[i])}
         IN  IF hits = {} THEN r
             ELSE [r EXCEPT !.imageUrl = arr[MinOf(hits)].image_url.url]
    ELSE r

\* A statement runs only when no earlier one has thrown.
Then(r, next) == IF r.err # <<>> THEN r ELSE next

\* Lines 160-205: the alternative response formats
FromMessage(message, r) ==
    IF ~Truthy(r.imageUrl) /\ message.present
    THEN LET r1 == FromImages(message, r)
             r2 == Then(r1, FromAttachments(message, r1))
             r3 == Then(r2, FromImageUrl(message, r2))
         IN  Then(r3, FromContentArray(message, r3))
    ELSE r

\* Lines 125-205
Extract(d) ==
    LET r0 == FromContent(ResponseContent(d))
    IN  Then(r0, FromMessage(FirstMessage(d), r0))

\* Mutant of NoImage: the call fails only when neither image nor text was found.
NoImageAndNoText(r) == ~Truthy(r.imageUrl) /\ ~Truthy(r.text)

\* Line 208: if (!result.imageUrl)
NoImage(r) == ~Truthy(r.imageUrl)

\* Lines 209-223: the message of the error thrown when no image was found
NoImageMessage(r) ==
    NoImageHead
        \o (IF Truthy(r.text)
            THEN ModelResponseLabel \o r.text.v \o <<"\n", "\n">>
            ELSE <<>>)
        \o NoImageAdvice

\* Lines 230-243: the message the caller sees for an Error thrown in the try
\* block (everything thrown there is an Error)
Caught(message) ==
    IF Includes(message, FetchWord) THEN NetworkErrorMessage ELSE message

\* errorData.error?.message || `HTTP ${response.status}: ${response.statusText}`
HttpErrorMessage(errorMessage, resp) ==
    IF Truthy(errorMessage)
    THEN errorMessage.v
    ELSE HttpLiteral \o resp.status \o ColonSpace \o resp.statusText

---------------------------------------------------------------------------
(* generateVideo, lines 255-268 *)

\* Mutant of NotifyProgress: the notification is sent twice.
NotifyProgressTwice(log) == Append(Append(log, CheckingCapabilities), CheckingCapabilities)

\* onProgress("Checking video generation capabilities...")
NotifyProgress(log) == Append(log, CheckingCapabilities)

\* The statement after the notification: throw new Error(...)
VideoCompletion == [outcome |-> "rejected", message |-> VideoUnsupportedMessage]

---------------------------------------------------------------------------
(* Inputs *)

Prompts == {<<"A", "d", "d", " ", "h", "a", "t">>, <<"S", "a", "y", " ", "\"", "h", "i", "\"">>}

PrimaryImages == {[base64 |-> <<"Q", "U", "J", "D">>, mimeType |-> <<"i", "m", "a", "g", "e", "/", "j", "p", "e", "g">>]}

Masks == {Null, JStr(<<>>), JStr(<<"T", "U", "F", "T">>)}

SecondaryImages ==
    {Null, [t |-> "object", v |-> <<>>, base64 |-> <<"W", "F", "l", "a">>, mimeType |-> <<"i", "m", "a", "g", "e", "/", "w", "e", "b", "p">>]}

VideoImages == {Null, [t |-> "object", v |-> <<>>, base64 |-> <<"Q", "U", "J", "D">>,
                       mimeType |-> <<"i", "m", "a", "g", "e", "/", "p", "n", "g">>]}

AspectRatios == {"16:9", "9:16"}

\* No error body was parsed
NoErrorData == [parsed |-> FALSE, message |-> Undefined]

NoResponse == [ok |-> FALSE, status |-> <<>>, statusText |-> <<>>]

Responses ==
    {[ok |-> TRUE, status |-> <<"2", "0", "0">>, statusText |-> <<"O", "K">>],
     [ok |-> FALSE, status |-> <<"4", "2", "9">>, statusText |-> <<"T", "o", "o", " ", "M", "a", "n", "y", " ", "R", "e", "q", "u", "e", "s", "t", "s">>],
     [ok |-> FALSE, status |-> <<"5", "0", "0">>, statusText |-> <<>>]}

\* errorData.error?.message of an error body
ErrorBodyMessages ==
    {Undefined, JStr(<<>>), JStr(<<"R", "a", "t", "e", " ", "l", "i", "m", "i", "t", " ", "e", "x", "c", "e", "e", "d",
    "e", "d">>),
     JStr(<<"U", "p", "s", "t", "r", "e", "a", "m", " ", "f", "e", "t", "c", "h", " ", "f", "a",
    "i", "l", "e", "d">>)}

RawChunk == [i \in 1..50 |-> "A"]

\* The pieces response content strings are made of
Pieces ==
    {<<"d", "a", "t", "a", ":", "i", "m", "a", "g", "e", "/", "p", "n", "g", ";", "b", "a",
    "s", "e", "6", "4", ",", "Q", "U", "J", "D">>,
     <<"S", "o", "r", "r", "y">>,
     <<" ">>,
     <<"f", "e", "t", "c", "h">>,
     <<"=">>,
     <<"d", "a", "t", "a", ":", "i", "m", "a", "g", "e", "/", ";", "b", "a", "s", "e", "6",
    "4", ",", "Q", "Q">>,
     RawChunk}

RECURSIVE Concats(_)
\* The concatenations of exactly n pieces
Concats(n) ==
    IF n = 0 THEN {<<>>}
    ELSE {s \o p : s \in Concats(n - 1), p \in Pieces}

ContentStrings == UNION {Concats(n) : n \in 0..MaxPieces}

UrlA == JStr(<<"h", "t", "t", "p", "s", ":", "/", "/", "x", "/", "a", ".", "p", "n", "g">>)

UrlB == JStr(<<"h", "t", "t", "p", "s", ":", "/", "/", "x", "/", "b", ".", "p", "n", "g">>)

UrlC == JStr(<<"h", "t", "t", "p", "s", ":", "/", "/", "x", "/", "c", ".", "p", "n", "g">>)

UrlD == JStr(<<"h", "t", "t", "p", "s", ":", "/", "/", "x", "/", "d", ".", "p", "n", "g">>)

\* Arrays of parts, as message.images or as an array-valued message.content
PartArrays ==
    {<<>>,
     <<ImagePart(UrlA)>>,
     <<TextPart(JStr(<<"D", "o", "n", "e">>))>>,
     <<ImagePart(Undefined), ImagePart(UrlB)>>}

Attachment(type, contentType, url) ==
    [type |-> type, content_type |-> contentType, url |-> url]

AttachmentArrays ==
    {<<>>,
     <<Attachment("image", Undefined, UrlC)>>,
     <<Attachment("file", JStr(<<"t", "e", "x", "t", "/", "p", "l", "a", "i", "n">>), UrlA),
       Attachment("file", JStr(<<"i", "m", "a", "g", "e", "/", "p", "n", "g">>), UrlD)>>,
     <<Attachment("image", Undefined, Undefined),
       Attachment("image", Undefined, UrlC)>>}

Contents ==
    {Undefined, Null, JNum(7)}
        \cup {JStr(s) : s \in ContentStrings}
        \cup {JArr(a) : a \in PartArrays}

Messages ==
    [present : {TRUE},
     content : Contents,
     images : {Undefined} \cup {JArr(a) : a \in PartArrays},
     attachments : {Undefined, [t |-> "object", v |-> <<>>]}
                       \cup {JArr(a) : a \in AttachmentArrays},
     image_url : {Undefined, UrlB}]

\* Parsed response bodies: no choices, a choice without a message, a message
ResponseBodies ==
    {[choices |-> <<>>], [choices |-> <<[message |-> NoMessage]>>]}
        \cup {[choices |-> <<[message |-> m]>>] : m \in Messages}

NoData == [choices |-> <<>>]

---------------------------------------------------------------------------
(* The state machine *)

NoArgs ==
    [base64ImageData |-> <<>>, mimeType |-> <<>>, prompt |-> <<>>,
     maskBase64 |-> Null, secondaryImage |-> Null]

Init ==
    /\ pc = "idle"
    /\ args = NoArgs
    /\ requestBody = NoRequest
    /\ fetches = 0
    /\ response = NoResponse
    /\ errorData = NoErrorData
    /\ data = NoData
    /\ result = [imageUrl |-> Null, text |-> Null]
    /\ error = <<>>
    /\ progress = <<>>
    /\ videoOutcome = "none"
    /\ videoError = <<>>

\* Mutant of Reject: the failed call goes back to its request instead of
\* rejecting.
RejectRetrying(message) ==
    /\ pc' = "fetch"
    /\ error' = <<>>

\* The catch block rethrows: the call rejects with the normalised message.
Reject(message) ==
    /\ pc' = "thrown"
    /\ error' = Caught(message)

\* editImage up to the await of fetch (lines 46-112)
EditImageCall(base64ImageData, mimeType, prompt, maskBase64, secondaryImage) ==
    /\ pc = "idle"
    /\ pc' = "fetch"
    /\ args' = [base64ImageData |-> base64ImageData, mimeType |-> mimeType,
                prompt |-> prompt, maskBase64 |-> maskBase64,
                secondaryImage |-> secondaryImage]
    /\ requestBody' = RequestBody(MessageContent(base64ImageData, mimeType, prompt,
                                                 maskBase64, secondaryImage))
    /\ fetches' = fetches + 1
    /\ response' = NoResponse
    /\ errorData' = NoErrorData
    /\ data' = NoData
    /\ result' = [imageUrl |-> Null, text |-> Null]
    /\ error' = <<>>
    /\ UNCHANGED <<progress, videoOutcome, videoError>>

\* fetch rejects (no connectivity): a TypeError reaches the catch block
FetchRejects ==
    /\ pc = "fetch"
    /\ Reject(FailedToFetch)
    /\ UNCHANGED <<args, requestBody, fetches, response, errorData, data, result,
                   progress, videoOutcome, videoError>>

\* fetch resolves; editImage awaits response.json() on either branch of line 114
FetchResolves(resp) ==
    /\ pc = "fetch"
    /\ pc' = "json"
    /\ response' = resp
    /\ UNCHANGED <<args, requestBody, fetches, errorData, data, result, error,
                   progress, videoOutcome, videoError>>

\* response.json() rejects: the body is no JSON
JsonRejects ==
    /\ pc = "json"
    /\ Reject(JsonSyntaxError)
    /\ UNCHANGED <<args, requestBody, fetches, response, errorData, data, result,
                   progress, videoOutcome, videoError>>

\* Lines 114-117: the error body of a non-ok response
JsonResolvesError(errorMessage) ==
    /\ pc = "json"
    /\ ~response.ok
    /\ errorData' = [parsed |-> TRUE, message |-> errorMessage]
    /\ Reject(HttpErrorMessage(errorMessage, response))
    /\ UNCHANGED <<args, requestBody, fetches, response, data, result,
                   progress, videoOutcome, videoError>>

\* Lines 119-228: the body of an ok response, extraction, return or throw
JsonResolvesData(d) ==
    /\ pc = "json"
    /\ response.ok
    /\ data' = d
    /\ LET r == Extract(d)
       IN  /\ result' = [imageUrl |-> r.imageUrl, text |-> r.text]
           /\ IF r.err # <<>> THEN Reject(r.err)
              ELSE IF NoImage(r) THEN Reject(NoImageMessage(r))
              ELSE pc' = "returned" /\ error' = <<>>
    /\ UNCHANGED <<args, requestBody, fetches, response, errorData, progress,
                   videoOutcome, videoError>>

\* generateVideo runs to its end without awaiting anything.  The two exports
\* share no state, so a behaviour follows one call of one of them.
GenerateVideo(prompt, image, aspectRatio) ==
    /\ pc = "idle"
    /\ pc' = "video"
    /\ progress' = NotifyProgress(<<>>)
    /\ videoOutcome' = VideoCompletion.outcome
    /\ videoError' = VideoCompletion.message
    /\ UNCHANGED <<args, requestBody, fetches, response, errorData, data, result, error>>

\* Each input is drawn once the call stands where the step can be taken.
Next ==
    \/ /\ pc = "idle"
       /\ \E img \in PrimaryImages, prompt \in Prompts, mask \in Masks,
             secondary \in SecondaryImages :
              EditImageCall(img.base64, img.mimeType, prompt, mask, secondary)
    \/ FetchRejects
    \/ \E resp \in Responses : FetchResolves(resp)
    \/ JsonRejects
    \/ \E m \in ErrorBodyMessages : JsonResolvesError(m)
    \/ /\ pc = "json"
       /\ response.ok
       /\ \E d \in ResponseBodies : JsonResolvesData(d)
    \/ /\ pc = "idle"
       /\ \E prompt \in Prompts, image \in VideoImages, ratio \in AspectRatios :
              GenerateVideo(prompt, image, ratio)

Spec == Init /\ [][Next]_vars

---------------------------------------------------------------------------
(* What the claims speak of *)

\* The message of the response the call extracted from
Message == FirstMessage(data)

\* The call has ended, by a return or by a throw
Ended == pc \in {"returned", "thrown"}

\* The content built for the request
BuiltContent == requestBody.messages[1].content

MaskSupplied == Truthy(args.maskBase64)

SecondarySupplied == Truthy(args.secondaryImage)

\* Strategy A: the matched data URI of a string content, Null when none
StrategyA(m) ==
    IF m.content.t = "string" /\ MatchDataUri(m.content.v) # <<>>
    THEN JStr(MatchDataUri(m.content.v))
    ELSE Null

\* Strategy B: the PNG data URI made of a string content that is raw base64
StrategyB(m) ==
    IF m.content.t = "string" /\ Base64PatternTest(Trim(m.content.v))
    THEN JStr(PngDataUriPrefix \o Trim(m.content.v))
    ELSE Null

\* The url of the first item of an array of parts that is of type image_url
\* and has a nested url
FirstImageUrlItem(value) ==
    IF value.t = "array" /\ \E i \in 1..Len(value.v) : IsImageUrlItem(value.v[i])
    THEN value.v[MinOf({i \in 1..Len(value.v) : IsImageUrlItem(value.v[i])})].image_url.url
    ELSE Null

\* Strategy C.a: message.images
StrategyCa(m) == FirstImageUrlItem(m.images)

\* Strategy C.b: the url of the first image attachment
StrategyCb(m) ==
    IF m.attachments.t = "array"
           /\ \E i \in 1..Len(m.attachments.v) : IsImageAttachment(m.attachments.v[i])
    THEN m.attachments.v[MinOf({i \in 1..Len(m.attachments.v) :
                                    IsImageAttachment(m.attachments.v[i])})].url
    ELSE Null

\* Strategy C.c: message.image_url
StrategyCc(m) == m.image_url

\* Strategy C.d: message.content as an array of parts
StrategyCd(m) == FirstImageUrlItem(m.content)

\* The first value of a sequence of strategy outcomes that is an image
FirstFound(outcomes) ==
    IF \E i \in 1..Len(outcomes) : Truthy(outcomes[i])
    THEN outcomes[MinOf({i \in 1..Len(outcomes) : Truthy(outcomes[i])})]
    ELSE Null

StringOrAbsent(content) == content.t \in {"string", "undefined", "null"}

---------------------------------------------------------------------------
(* The claims *)

\* C1: when message.content is a string or absent, the imageUrl editImage returns
\* is the value of the first strategy that matches in the order A, B, C.a, C.b,
\* C.c; a later strategy never overrides an earlier one.
C1_FirstMatchWins ==
    (pc = "returned" /\ StringOrAbsent(Message.content))
        => result.imageUrl =
               FirstFound(<<StrategyA(Message), StrategyB(Message), StrategyCa(Message),
                            StrategyCb(Message), StrategyCc(Message)>>)

\* C1 witness: images holds an image and so do the attachments and image_url;
\* the call returned the one of images.
C1_Witness ==
    /\ pc = "returned"
    /\ Message.content.t = "string"
    /\ ~Truthy(StrategyA(Message)) /\ ~Truthy(StrategyB(Message))
    /\ Truthy(StrategyCa(Message))
    /\ Truthy(StrategyCb(Message)) /\ StrategyCb(Message) # StrategyCa(Message)
    /\ Truthy(StrategyCc(Message)) /\ StrategyCc(Message) # StrategyCa(Message)
    /\ result.imageUrl = StrategyCa(Message)

\* C2 as stated: whenever editImage returns, the result carries no text.
C2_NoTextOnSuccess == pc = "returned" => ~Truthy(result.text)

\* C2 as amended: a returned result carries no text when the image came from
\* Strategy A or B; when it came from a Strategy C sub-strategy and the content
\* is a non-empty string, the result carries that string as its text.
C2_TextKeptOnlyWithStrategyC ==
    pc = "returned" =>
        IF Truthy(StrategyA(Message)) \/ Truthy(StrategyB(Message))
        THEN result.text = Null
        ELSE IF Message.content.t = "string" /\ Message.content.v # <<>>
        THEN result.text = Message.content
        ELSE result.text = Null

\* C2 witness: an image found in message.images is returned with the content text.
C2_Witness ==
    /\ pc = "returned"
    /\ result.imageUrl = StrategyCa(Message)
    /\ Truthy(result.text)
    /\ result.text = Message.content

\* The response holds no image outside the content string: none in images, in the
\* attachments, in image_url or in a content array.
NoAlternativeImage(m) ==
    /\ m.images.t \in {"undefined", "array"} /\ ~Truthy(StrategyCa(m))
    /\ m.attachments.t \in {"undefined", "array"} /\ ~Truthy(StrategyCb(m))
    /\ ~Truthy(StrategyCc(m))
    /\ ~Truthy(StrategyCd(m))

\* C3: when the content is a plain-text string (no data URI, not raw base64) and
\* the response holds no image elsewhere, editImage fails with an error whose
\* message, as the caller sees it, contains the content text verbatim.
C3_ErrorCarriesText ==
    (/\ Ended
     /\ Message.content.t = "string"
     /\ ~Truthy(StrategyA(Message)) /\ ~Truthy(StrategyB(Message))
     /\ NoAlternativeImage(Message))
        => pc = "thrown" /\ Includes(error, Message.content.v)

\* The index in the built content at which the secondary image part stands
SecondaryIndex == IF MaskSupplied THEN 3 ELSE 2

\* The number of image parts the claim gives: 1 + mask present + secondary present
ImageParts == 1 + (IF MaskSupplied THEN 1 ELSE 0) + (IF SecondarySupplied THEN 1 ELSE 0)

\* C4: the built message content is the primary image part, then the mask image
\* part iff a mask is supplied, then the secondary image part iff a secondary
\* image is supplied, then exactly one text part, last; there are
\* 1 + (mask present) + (secondary present) image parts.
C4_PartOrder ==
    pc \in {"fetch", "json", "returned", "thrown"} =>
        /\ Len(BuiltContent) = ImageParts + 1
        /\ \A i \in 1..Len(BuiltContent) :
               BuiltContent[i].type = (IF i <= ImageParts THEN "image_url" ELSE "text")
        /\ BuiltContent[1] = ImagePart(JStr(DataUri(args.mimeType, args.base64ImageData)))
        /\ MaskSupplied =>
               BuiltContent[2] = ImagePart(JStr(PngDataUriPrefix \o args.maskBase64.v))
        /\ SecondarySupplied =>
               BuiltContent[SecondaryIndex] =
                   ImagePart(JStr(DataUri(args.secondaryImage.mimeType,
                                          args.secondaryImage.base64)))

\* C4 witness: a request built with a mask and a secondary image
C4_Witness ==
    /\ pc = "fetch"
    /\ MaskSupplied /\ SecondarySupplied
    /\ Len(BuiltContent) = 4

\* C5: the text of the trailing text part is prompt + suffix without a mask, and
\* the masked-edit template quoting the prompt, then the suffix, with a mask;
\* with a mask it never equals prompt + suffix.
C5_TrailingText ==
    pc \in {"fetch", "json", "returned", "thrown"} =>
        LET last == BuiltContent[Len(BuiltContent)]
        IN  /\ last.type = "text"
            /\ ~MaskSupplied => last.text = JStr(args.prompt \o ImageSuffix)
            /\ MaskSupplied =>
                   /\ last.text = JStr(MaskTemplateHead \o args.prompt \o MaskTemplateTail
                                           \o ImageSuffix)
                   /\ last.text # JStr(args.prompt \o ImageSuffix)

\* C5 witness: a request built with a mask, its prompt rewritten
C5_Witness ==
    /\ pc = "fetch"
    /\ MaskSupplied
    /\ Includes(BuiltContent[Len(BuiltContent)].text.v, <<"\"">> \o args.prompt \o <<"\"">>)

\* C6: generateVideo invokes onProgress exactly once and then fails with the
\* capability-not-supported error; it never resolves and never notifies twice.
C6_VideoAlwaysFails ==
    /\ videoOutcome # "resolved"
    /\ Len(progress) <= 1
    /\ pc = "video" =>
           /\ progress = <<CheckingCapabilities>>
           /\ videoOutcome = "rejected"
           /\ videoError = VideoUnsupportedMessage

\* C6 witness: generateVideo was called and has ended
C6_Witness == pc = "video" /\ Len(progress) = 1 /\ videoOutcome = "rejected"

\* C7: editImage never returns a result whose imageUrl is absent; a response in
\* which no strategy locates an image ends in a thrown error.
C7_NeverReturnsWithoutImage ==
    /\ pc = "returned" => Truthy(result.imageUrl)
    /\ (/\ Ended
        /\ response.ok
        /\ ~Truthy(FirstFound(<<StrategyA(Message), StrategyB(Message),
                                StrategyCa(Message), StrategyCb(Message),
                                StrategyCc(Message), StrategyCd(Message)>>)))
           => pc = "thrown"

\* C7 witness: a response with text and no image anywhere ended in a throw
C7_Witness ==
    /\ pc = "thrown"
    /\ response.ok
    /\ Message.present
    /\ Message.content.t = "string" /\ Message.content.v # <<>>
    /\ NoAlternativeImage(Message)
    /\ ~Truthy(result.imageUrl)
    /\ Truthy(result.text)

\* C8: when message.content is an array of parts and no image is present in
\* images, attachments or image_url, editImage returns the nested url of the
\* first part of the array of type image_url that has one.
C8_ContentArray ==
    (/\ Ended
     /\ Message.content.t = "array"
     /\ Truthy(StrategyCd(Message))
     /\ Message.images.t \in {"undefined", "array"} /\ ~Truthy(StrategyCa(Message))
     /\ Message.attachments.t \in {"undefined", "array"} /\ ~Truthy(StrategyCb(Message))
     /\ ~Truthy(StrategyCc(Message)))
        => pc = "returned" /\ result.imageUrl = StrategyCd(Message)


\* C9: after a non-success HTTP status whose error body was parsed, the error the
\* caller sees carries the body's error.message when it is present and the
\* message "HTTP <status>: <statusText>" otherwise; nothing is extracted.
C9_HttpErrorMessage ==
    (pc = "thrown" /\ errorData.parsed)
        => /\ error = (IF Truthy(errorData.message)
                       THEN errorData.message.v
                       ELSE HttpLiteral \o response.status \o ColonSpace
                                \o response.statusText)
           /\ data = NoData
           /\ result = [imageUrl |-> Null, text |-> Null]

\* C10: a call of editImage makes at most one request and ends in one outcome:
\* a settled fetch leads on or to a throw, a read body to a return or a throw,
\* a non-ok response to a throw, an extraction without an image to a throw,
\* and a call that has ended stays as it ended.
C10_OneRequestOneOutcome ==
    [][/\ fetches' <= 1
       /\ pc = "fetch" => pc' \in {"json", "thrown"}
       /\ pc = "json" => pc' \in {"returned", "thrown"}
       /\ (pc = "json" /\ ~response.ok) => pc' = "thrown"
       /\ (pc = "json" /\ ~Truthy(result.imageUrl')) => pc' = "thrown"
       /\ Ended => UNCHANGED <<pc, fetches, result, error>>]_vars

\* C10 witness: a call that failed on a non-ok response after its one request
C10_Witness ==
    /\ pc = "thrown"
    /\ fetches = 1
    /\ response # NoResponse /\ ~response.ok
    /\ error # <<>>
====
